---- MODULE Spec2Model ----
(***************************************************************************)
(* smart_gnomad_downloader (src/src/main.rs): the sorted-interval scanner, *)
(* the per-chromosome filtering job and the spawn/join loop of main.       *)
(*                                                                         *)
(* A u32 is the pair <<hi, lo>> of its two 16-bit halves, so that the      *)
(* whole 32-bit range, u32::MAX included, is represented exactly.          *)
(* An Option is a sequence: None is <<>> and Some(x) is <<x>>.             *)
(* A line of text is a sequence of one-character strings.                  *)
(***************************************************************************)
EXTENDS Integers, Sequences, FiniteSets, TLC

\* ------------------------------------------------------------------ bounds
\* Scanner specification: values 0..MaxVal (and u32::MAX), lists of at most
\* MaxIntervals intervals.
MaxVal == 3
MaxIntervals == 2

\* ------------------------------------------------------------ Option, u32
None == <<>>
Some(x) == <<x>>

\* 2^16: a u32 is hi * Half + lo.
Half == 65536

U32(n) == <<n \div Half, n % Half>>
U32_MAX == <<Half - 1, Half - 1>>

\* `<` of u32 (PartialOrd of T at main.rs:121,124).
Lt(a, b) == a[1] < b[1] \/ (a[1] = b[1] /\ a[2] < b[2])
Le(a, b) == a = b \/ Lt(a, b)

\* ------------------------------------------------- SortedIntervalIntersect
\* The interval source I, an iterator over a finite list (vec::IntoIter,
\* array::IntoIter): the items, the index of the next one to yield, and how
\* many items next() has yielded so far.
IntoIter(items) == [items |-> items, pos |-> 1, yielded |-> 0]

\* Faulty variant of IterNext: an iterator that is not fused and starts over after
\* it has reported its end.
IterNext_restarting(it) ==
    IF it.pos <= Len(it.items)
    THEN [item |-> Some(it.items[it.pos]),
          it |-> [it EXCEPT !.pos = @ + 1, !.yielded = @ + 1]]
    ELSE [item |-> None, it |-> [it EXCEPT !.pos = 1]]

\* Iterator::next: the item yielded (None at the end) and the iterator after.
IterNext(it) ==
    IF it.pos <= Len(it.items)
    THEN [item |-> Some(it.items[it.pos]),
          it |-> [it EXCEPT !.pos = @ + 1, !.yielded = @ + 1]]
    ELSE [item |-> None, it |-> it]

\* SortedIntervalIntersect::new
SortedIntervalIntersect_new(it) == [intervals |-> it, current_interval |-> None]

\* self.current_interval = self.intervals.next()
Advance(self) ==
    LET n == IterNext(self.intervals)
    IN  [intervals |-> n.it, current_interval |-> n.item]

\* Faulty variant of in_interval_loop: the end of an interval counts as inside it.
RECURSIVE in_interval_loop_closed(_, _)
in_interval_loop_closed(self, value) ==
    IF self.current_interval # None
    THEN LET current_interval == self.current_interval[1]
         IN  IF Lt(value, current_interval[1])
             THEN [ret |-> Some(FALSE), self |-> self]
             ELSE IF Le(value, current_interval[2])
             THEN [ret |-> Some(TRUE), self |-> self]
             ELSE in_interval_loop_closed(Advance(self), value)
    ELSE [ret |-> None, self |-> self]

\* Faulty variant of in_interval_loop: the start of an interval counts as before it.
RECURSIVE in_interval_loop_open(_, _)
in_interval_loop_open(self, value) ==
    IF self.current_interval # None
    THEN LET current_interval == self.current_interval[1]
         IN  IF Le(value, current_interval[1])
             THEN [ret |-> Some(FALSE), self |-> self]
             ELSE IF Lt(value, current_interval[2])
             THEN [ret |-> Some(TRUE), self |-> self]
             ELSE in_interval_loop_open(Advance(self), value)
    ELSE [ret |-> None, self |-> self]

\* Faulty variant of in_interval_loop: a hit consumes the interval it was found in.
RECURSIVE in_interval_loop_consumes_hit(_, _)
in_interval_loop_consumes_hit(self, value) ==
    IF self.current_interval # None
    THEN LET current_interval == self.current_interval[1]
         IN  IF Lt(value, current_interval[1])
             THEN [ret |-> Some(FALSE), self |-> self]
             ELSE IF Lt(value, current_interval[2])
             THEN [ret |-> Some(TRUE), self |-> Advance(self)]
             ELSE in_interval_loop_consumes_hit(Advance(self), value)
    ELSE [ret |-> None, self |-> self]

\* The loop of in_interval: the value returned and the scanner after.
RECURSIVE in_interval_loop(_, _)
in_interval_loop(self, value) ==
    IF self.current_interval # None
    THEN LET current_interval == self.current_interval[1]
         IN  IF Lt(value, current_interval[1])
             THEN [ret |-> Some(FALSE), self |-> self]
             ELSE IF Lt(value, current_interval[2])
             THEN [ret |-> Some(TRUE), self |-> self]
             ELSE in_interval_loop(Advance(self), value)
    ELSE [ret |-> None, self |-> self]

\* Faulty variant of in_interval: every call fetches the next interval first.
in_interval_refetch(self, value) == in_interval_loop(Advance(self), value)

\* SortedIntervalIntersect::in_interval
in_interval(self, value) ==
    in_interval_loop(IF self.current_interval = None THEN Advance(self) ELSE self,
                     value)

\* ------------------------------------------------------------------- text
\* str::starts_with("#")
starts_with_hash(line) == Len(line) > 0 /\ line[1] = "#"

\* The index of the first tab of s, 0 when it has none.
RECURSIVE find_tab(_, _)
find_tab(s, i) ==
    IF i > Len(s) THEN 0
    ELSE IF s[i] = "\t" THEN i
    ELSE find_tab(s, i + 1)

\* str::split("\t"): the fields, in order ("" splits into one empty field).
RECURSIVE split_tab(_)
split_tab(s) ==
    LET i == find_tab(s, 1)
    IN  IF i = 0 THEN <<s>>
        ELSE <<SubSeq(s, 1, i - 1)>> \o split_tab(SubSeq(s, i + 1, Len(s)))

\* Iterator::nth, counted from 0.
nth(fields, n) == IF n < Len(fields) THEN Some(fields[n + 1]) ELSE None

DigitValue ==
    "0" :> 0 @@ "1" :> 1 @@ "2" :> 2 @@ "3" :> 3 @@ "4" :> 4 @@
    "5" :> 5 @@ "6" :> 6 @@ "7" :> 7 @@ "8" :> 8 @@ "9" :> 9

\* char::to_digit(10)
to_digit(c) == IF c \in DOMAIN DigitValue THEN Some(DigitValue[c]) ELSE None

\* u32: result.checked_mul(10) then checked_add(d); None on overflow.
checked_mul10_add(v, d) ==
    LET lo == v[2] * 10 + d
        hi == v[1] * 10 + (lo \div Half)
    IN  IF hi >= Half THEN None ELSE Some(<<hi, (lo % Half)>>)

\* The digit loop of u32::from_str: None on a non-digit or an overflow.
RECURSIVE parse_digits(_, _, _)
parse_digits(s, i, acc) ==
    IF i > Len(s) THEN Some(acc)
    ELSE LET d == to_digit(s[i])
         IN  IF d = None THEN None
             ELSE LET r == checked_mul10_add(acc, d[1])
                  IN  IF r = None THEN None ELSE parse_digits(s, i + 1, r[1])

\* str::parse::<u32>(): Some(value), or None for Err (empty, a lone sign, a
\* non-digit, a value above u32::MAX). A leading "+" is accepted.
parse_u32(s) ==
    IF Len(s) = 0 THEN None
    ELSE IF s[1] = "+"
    THEN IF Len(s) = 1 THEN None ELSE parse_digits(s, 2, U32(0))
    ELSE parse_digits(s, 1, U32(0))

\* line.split("\t").nth(1)....parse(): <<"ok", pos>>, or the expect that
\* panics.
line_pos(line) ==
    LET field == nth(split_tab(line), 1)
    IN  IF field = None THEN <<"Invalid vcf line">>
        ELSE LET pos == parse_u32(field[1])
             IN  IF pos = None THEN <<"second field is not a number">>
                 ELSE <<"ok", pos[1]>>

\* ---------------------------------------------------------------- digest
\* The bytes of the characters the inputs use.
Byte ==
    "#" :> 35 @@ "\t" :> 9 @@ "+" :> 43 @@ "c" :> 99 @@ "h" :> 104 @@
    "x" :> 120 @@ "A" :> 65 @@
    "0" :> 48 @@ "1" :> 49 @@ "2" :> 50 @@ "3" :> 51 @@ "4" :> 52 @@
    "5" :> 53 @@ "6" :> 54 @@ "7" :> 55 @@ "8" :> 56 @@ "9" :> 57

\* The rolling digest stands for MD5: a 16-bit polynomial checksum of the
\* bytes consumed, in order. md5::Context::new is 0.
RECURSIVE md5_consume(_, _, _)
md5_consume(ctx, buf, i) ==
    IF i > Len(buf) THEN ctx
    ELSE md5_consume(((ctx * 31) + Byte[buf[i]] + 1) % Half, buf, i + 1)

HexDigit == <<"0", "1", "2", "3", "4", "5", "6", "7",
              "8", "9", "a", "b", "c", "d", "e", "f">>

\* format!("{:x}", digest): lowercase hexadecimal, fixed width.
format_x(d) ==
    <<HexDigit[((d \div 4096) % 16) + 1], HexDigit[((d \div 256) % 16) + 1],
      HexDigit[((d \div 16) % 16) + 1], HexDigit[(d % 16) + 1]>>

\* The raw block of the stream that carries one line: its bytes.  The bgzf
\* codec is a black box; a block decodes to the line it was made from.
RECURSIVE md5_of_stream(_, _, _)
md5_of_stream(body, i, ctx) ==
    IF i > Len(body) THEN ctx
    ELSE md5_of_stream(body, i + 1, md5_consume(ctx, body[i], 1))

\* -------------------------------------------------------- main: the tables
EmptyMap == [k \in {} |-> <<>>]

\* urls (main.rs:229-237): entry(chromosome).or_insert((md5sum, url)), the
\* first record of a chromosome wins.
RECURSIVE fold_urls(_, _, _)
fold_urls(records, i, acc) ==
    IF i > Len(records) THEN acc
    ELSE LET record == records[i]
         IN  fold_urls(records, i + 1,
                 IF record.chromosome \in DOMAIN acc THEN acc
                 ELSE acc @@ (record.chromosome :> <<record.md5sum, record.url>>))

\* regions (main.rs:241-250): entry(chromosome).or_insert_with(Vec::new).push
RECURSIVE fold_regions(_, _, _)
fold_regions(records, i, acc) ==
    IF i > Len(records) THEN acc
    ELSE LET record == records[i]
             r == <<record.start, record.end>>
         IN  fold_regions(records, i + 1,
                 IF record.chromosome \in DOMAIN acc
                 THEN [acc EXCEPT ![record.chromosome] = Append(@, r)]
                 ELSE acc @@ (record.chromosome :> <<r>>))

\* Vec::sort_by_key(|r| r.0): a stable sort, ascending by start.
RECURSIVE insert_by_key(_, _)
insert_by_key(sorted, r) ==
    IF sorted = <<>> THEN <<r>>
    ELSE LET last == sorted[Len(sorted)]
         IN  IF Lt(r[1], last[1])
             THEN Append(insert_by_key(SubSeq(sorted, 1, Len(sorted) - 1), r), last)
             ELSE Append(sorted, r)

\* Faulty variant of sort_by_key: the list is left in file order.
sort_by_key_unsorted(v) == v

RECURSIVE sort_by_key(_)
sort_by_key(v) ==
    IF v = <<>> THEN <<>>
    ELSE insert_by_key(sort_by_key(SubSeq(v, 1, Len(v) - 1)), v[Len(v)])

\* --------------------------------------------------------------- the inputs
Chroms == {"chr1", "chr2", "chr3", "chr4"}
Urls == {"u1", "u2"}

DecDigit == <<"0", "1", "2", "3", "4", "5", "6", "7", "8", "9">>

\* The decimal text of a small number.
RECURSIVE dec(_)
dec(n) ==
    IF n < 10 THEN <<DecDigit[n + 1]>>
    ELSE dec(n \div 10) \o <<DecDigit[(n % 10) + 1]>>

\* A header line, and a data line whose second field is the text pos.
Header == <<"#", "h">>
VcfLine(pos) == <<"c", "\t">> \o pos \o <<"\t", "A">>

MaxText == <<"4", "2", "9", "4", "9", "6", "7", "2", "9", "5">>
BelowMaxText == <<"4", "2", "9", "4", "9", "6", "7", "2", "9", "4">>
AboveMaxText == <<"4", "2", "9", "4", "9", "6", "7", "2", "9", "6">>

\* The five lines of the scenario: a header, then 50, 150, 500, 1500.
ScenarioBody ==
    <<Header, VcfLine(dec(50)), VcfLine(dec(150)), VcfLine(dec(500)),
      VcfLine(dec(1500))>>
\* Positions 0 and u32::MAX - 1, the ends of the range below u32::MAX.
WideBody == <<VcfLine(dec(0)), Header, VcfLine(BelowMaxText)>>
\* A record at u32::MAX itself, and a header after the last record.
MaxBody == <<Header, VcfLine(BelowMaxText), VcfLine(MaxText), Header>>
\* Positions out of order, a header after a record, a signed position.
UnsortedBody == <<VcfLine(dec(500)), Header, VcfLine(<<"+">> \o dec(150))>>
\* A record whose position does not fit a u32.
OverflowBody == <<Header, VcfLine(dec(150)), VcfLine(AboveMaxText), VcfLine(dec(500))>>
\* A record of one field only, a header after it.
MissingFieldBody == <<VcfLine(dec(150)), <<"c">>, Header>>
\* A record whose second field is not a number.
NonNumericBody == <<Header, <<"c", "\t", "x", "\t", "A">>, VcfLine(dec(500))>>

\* What a URL answers: whether the connection opens ("ok"), is refused,
\* times out, or brings a response with a non-success status ("status",
\* its body empty), and the lines of the file it serves.
Remotes ==
    {[conn |-> "ok", body |-> b] :
        b \in {ScenarioBody, WideBody, MaxBody, UnsortedBody, OverflowBody,
               MissingFieldBody, NonNumericBody}}
    \cup {[conn |-> k, body |-> <<>>] : k \in {"refused", "timeout", "status"}}

BEDRecord(c, s, e) == [chromosome |-> c, start |-> s, end |-> e]
URLDownloadRecord(c, m, u) == [chromosome |-> c, md5sum |-> m, url |-> u]

\* Region tables, rows in file order (not sorted).
BedFiles ==
    { <<BEDRecord("chr1", U32(400), U32(1000)), BEDRecord("chr2", U32(0), U32_MAX),
        BEDRecord("chr1", U32(100), U32(200))>>,
      <<BEDRecord("chr2", U32(100), U32(200)), BEDRecord("chr3", U32(1), U32(2)),
        BEDRecord("chr2", U32(400), U32(1000)), BEDRecord("chr1", U32(0), U32_MAX)>>,
      <<BEDRecord("chr1", U32(100), U32(200)), BEDRecord("chr1", U32(400), U32(1000))>> }

\* The digest of the file a URL stands for, as the manifest would list it:
\* of what it serves, or, when it serves no file, of the scenario's file.
TrueDigest(r) ==
    format_x(md5_of_stream(IF r.conn = "ok" THEN r.body ELSE ScenarioBody, 1, 0))
\* A digest of no file served (nor of the empty stream).
WrongDigest == <<"f", "f", "f", "f">>

\* Manifests for the remotes rem: each digest right or wrong; one manifest
\* lists chr1 twice and chr4, which no region table names.
UrlFiles(rem) ==
    { <<URLDownloadRecord("chr1", m1, "u1"), URLDownloadRecord("chr2", m2, "u2")>> :
        m1 \in {TrueDigest(rem["u1"]), WrongDigest},
        m2 \in {TrueDigest(rem["u2"])} }
    \cup
    { <<URLDownloadRecord("chr1", TrueDigest(rem["u1"]), "u1"),
        URLDownloadRecord("chr2", WrongDigest, "u2"),
        URLDownloadRecord("chr1", WrongDigest, "u2"),
        URLDownloadRecord("chr4", WrongDigest, "u1")>> }

\* ---------------------------------------------------------------- the state
VARIABLES
    bed_file,          \* the rows of the BED file (args.bed)
    urls_file,         \* the rows of the URL list (args.urls)
    remote,            \* what each URL answers
    urls,              \* main: chromosome -> (md5sum, url)
    regions_per_chr,   \* main: chromosome -> regions sorted by start
    todo,              \* main: keys of regions_per_chr the spawn loop has not visited
    thread_handles,    \* main: the chromosomes of the spawned threads, in spawn order
    joined,            \* main: how many handles the join loop has joined
    main_pc,           \* main: "start", "spawn", "join", "returned", "panicked"
    exit_code,         \* None while the process lives, then Some(status)
    job,               \* chromosome -> the locals of its smart_save_vcf_from_url
    fs,                \* file name -> None, or Some(the lines written, finished)
    stderr,            \* chromosome -> the messages printed about it
    scanner,           \* scanner specification: a SortedIntervalIntersect
    value,             \* scanner specification: the last value queried, if any
    ret,               \* scanner specification: what the last call returned
    in_order           \* scanner specification: the queries so far never decreased

main_vars ==
    <<bed_file, urls_file, remote, urls, regions_per_chr, todo, thread_handles,
      joined, main_pc, exit_code, job, fs, stderr>>
scan_vars == <<scanner, value, ret, in_order>>
vars == <<main_vars, scan_vars>>

\* ------------------------------------------------- the scanner, on its own
ScanVals == {U32(n) : n \in 0..MaxVal} \cup {U32_MAX}
IntervalLists == UNION {[1..n -> ScanVals \X ScanVals] : n \in 0..MaxIntervals}

\* The program at rest, for the scanner specification.
IdleProgram ==
    /\ bed_file = <<>> /\ urls_file = <<>> /\ remote = EmptyMap
    /\ urls = EmptyMap /\ regions_per_chr = EmptyMap /\ todo = {}
    /\ thread_handles = <<>> /\ joined = 0 /\ main_pc = "returned"
    /\ exit_code = Some(0) /\ job = EmptyMap /\ fs = EmptyMap /\ stderr = EmptyMap

\* A scanner over a region list sorted the way main sorts it, nothing queried.
ScanInit ==
    /\ IdleProgram
    /\ \E raw \in IntervalLists :
           scanner = SortedIntervalIntersect_new(IntoIter(sort_by_key(raw)))
    /\ value = None
    /\ ret = None
    /\ in_order = TRUE

\* One call intersection_check.in_interval(v).
Query(v) ==
    LET r == in_interval(scanner, v)
    IN  /\ scanner' = r.self
        /\ ret' = Some(r.ret)
        /\ value' = Some(v)
        /\ in_order' = (in_order /\ (value = None \/ Le(value[1], v)))
        /\ UNCHANGED main_vars

ScanNext == \E v \in ScanVals : Query(v)

SpecScan == ScanInit /\ [][ScanNext]_vars

\* ------------------------------------------------------ Md5ConsumerWriter
\* ProgressBar::no_length(): the part of the bar that reports an outcome.
ProgressBar_no_length == [pos |-> 0, message |-> "", finished |-> FALSE]

\* Md5ConsumerWriter::new
Md5ConsumerWriter_new(progress_bar) ==
    [md5_context |-> 0, progress_bar |-> progress_bar]

\* Write::write for Md5ConsumerWriter: consume the bytes, advance the bar.
Md5ConsumerWriter_write(self, buf) ==
    [md5_context |-> md5_consume(self.md5_context, buf, 1),
     progress_bar |-> [self.progress_bar EXCEPT !.pos = @ + Len(buf)]]

\* Md5ConsumerWriter::digest: the result and the bar it leaves.
Md5ConsumerWriter_digest(self, expected_md5sum) ==
    LET md5sum == format_x(self.md5_context)
    IN  IF md5sum = expected_md5sum
        THEN [ret |-> TRUE,
              progress_bar |-> [self.progress_bar EXCEPT
                  !.message = "Successfully downloaded file", !.finished = TRUE]]
        ELSE [ret |-> FALSE,
              progress_bar |-> [self.progress_bar EXCEPT
                  !.message = "Error: checksums do not match!", !.finished = TRUE]]

\* ------------------------------------------------- smart_save_vcf_from_url
\* Faulty variant of output_file_name: every job is given the same name.
output_file_name_shared(chrom_name) == <<"chr1", ".vcf.gz">>

\* format!("{}.vcf.gz", &chrom_name)
output_file_name(chrom_name) == <<chrom_name, ".vcf.gz">>
FileNames == {output_file_name(c) : c \in Chroms}

\* A thread that was not spawned.
NoJob ==
    [pc |-> "none", url |-> "", expected_md5 |-> <<>>, regions |-> <<>>,
     output_file_name |-> <<>>,
     md5_writer |-> Md5ConsumerWriter_new(ProgressBar_no_length),
     nread |-> 0,
     intersection_check |-> SortedIntervalIntersect_new(IntoIter(<<>>)),
     ret |-> None, panic |-> None]

\* The process lives: no thread takes a step after it has exited.
Alive == exit_code = None

\* std::fs::File::create, then bgzf::io::Writer::new: an empty, open file.
File_create == Some([lines |-> <<>>, finished |-> FALSE])
\* writeln!(vcf_file_writer, "{}", line)
writeln(f, line) == Some([f[1] EXCEPT !.lines = Append(@, line)])
\* Drop of vcf_file_writer: the last block and the end marker are written.
Writer_drop(f) == Some([f[1] EXCEPT !.finished = TRUE])

\* Faulty variant of loop_body: once the scanner has no interval left, every line is
\* dropped, headers too.
loop_body_drops_after_last(intersection_check, line) ==
    IF /\ intersection_check.current_interval = None
       /\ intersection_check.intervals.pos > Len(intersection_check.intervals.items)
    THEN [intersection_check |-> intersection_check, out |-> None, panic |-> None]
    ELSE IF starts_with_hash(line)
    THEN [intersection_check |-> intersection_check, out |-> Some(line),
          panic |-> None]
    ELSE LET pos == line_pos(line)
         IN  IF pos[1] # "ok"
             THEN [intersection_check |-> intersection_check, out |-> None,
                   panic |-> Some(pos[1])]
             ELSE LET r == in_interval(intersection_check, pos[2])
                  IN  [intersection_check |-> r.self,
                       out |-> IF r.ret = Some(TRUE) THEN Some(line) ELSE None,
                       panic |-> None]

\* Faulty variant of loop_body: a record whose position does not parse is skipped.
loop_body_skips_malformed(intersection_check, line) ==
    IF starts_with_hash(line)
    THEN [intersection_check |-> intersection_check, out |-> Some(line),
          panic |-> None]
    ELSE LET pos == line_pos(line)
         IN  IF pos[1] # "ok"
             THEN [intersection_check |-> intersection_check, out |-> None,
                   panic |-> None]
             ELSE LET r == in_interval(intersection_check, pos[2])
                  IN  [intersection_check |-> r.self,
                       out |-> IF r.ret = Some(TRUE) THEN Some(line) ELSE None,
                       panic |-> None]

\* Faulty variant of loop_body: a record is written whenever the scanner answers
\* Some(_), hit or gap.
loop_body_writes_gaps(intersection_check, line) ==
    IF starts_with_hash(line)
    THEN [intersection_check |-> intersection_check, out |-> Some(line),
          panic |-> None]
    ELSE LET pos == line_pos(line)
         IN  IF pos[1] # "ok"
             THEN [intersection_check |-> intersection_check, out |-> None,
                   panic |-> Some(pos[1])]
             ELSE LET r == in_interval(intersection_check, pos[2])
                  IN  [intersection_check |-> r.self,
                       out |-> IF r.ret # None THEN Some(line) ELSE None,
                       panic |-> None]

\* The body of the for loop (main.rs:187-206) on one line: the scanner
\* after, the line to write if any, the panic if any.
loop_body(intersection_check, line) ==
    IF starts_with_hash(line)
    THEN [intersection_check |-> intersection_check, out |-> Some(line),
          panic |-> None]
    ELSE LET pos == line_pos(line)
         IN  IF pos[1] # "ok"
             THEN [intersection_check |-> intersection_check, out |-> None,
                   panic |-> Some(pos[1])]
             ELSE LET r == in_interval(intersection_check, pos[2])
                  IN  [intersection_check |-> r.self,
                       out |-> IF r.ret = Some(TRUE) THEN Some(line) ELSE None,
                       panic |-> None]

\* The thread of c panics with msg, its locals being j: the message goes to
\* stderr and unwinding drops the writer if the file was created.
Panics(c, j, msg, file_open) ==
    /\ job' = [job EXCEPT ![c] = [j EXCEPT !.pc = "panicked", !.panic = Some(msg)]]
    /\ stderr' = [stderr EXCEPT ![c] = Append(@, msg)]
    /\ fs' = IF file_open
             THEN [fs EXCEPT ![j.output_file_name] = Writer_drop(@)]
             ELSE fs

\* get_blocking_reader_from_url: client.get(url).send().ok() is Some(response)
\* unless the request itself failed (refused, timed out); the status of the
\* response is not looked at.
get_blocking_reader_from_url(r) ==
    IF r.conn \in {"refused", "timeout"} THEN None ELSE Some(r.body)

\* main.rs:153-170: open the connection; a transport failure panics.
Connect(c) ==
    /\ Alive /\ job[c].pc = "connect"
    /\ IF get_blocking_reader_from_url(remote[job[c].url]) # None
       THEN /\ job' = [job EXCEPT ![c].pc = "create"]
            /\ stderr' = [stderr EXCEPT ![c] = Append(@, "Downloading file")]
            /\ UNCHANGED fs
       ELSE /\ job' = [job EXCEPT ![c].pc = "panicked",
                                  ![c].panic = Some("Cannot download file")]
            /\ stderr' = [stderr EXCEPT
                   ![c] = @ \o <<"Downloading file", "Cannot download file">>]
            /\ UNCHANGED fs
    /\ UNCHANGED <<bed_file, urls_file, remote, urls, regions_per_chr, todo,
                   thread_handles, joined, main_pc, exit_code, scan_vars>>

\* main.rs:175-180: create the output file, build the scanner.
CreateFile(c) ==
    /\ Alive /\ job[c].pc = "create"
    /\ fs' = [fs EXCEPT ![job[c].output_file_name] = File_create]
    /\ job' = [job EXCEPT
           ![c].pc = "lines",
           ![c].intersection_check =
               SortedIntervalIntersect_new(IntoIter(job[c].regions))]
    /\ UNCHANGED <<bed_file, urls_file, remote, urls, regions_per_chr, todo,
                   thread_handles, joined, main_pc, exit_code, stderr, scan_vars>>

\* main.rs:176: File::create fails.
CreateFileFails(c) ==
    /\ Alive /\ job[c].pc = "create"
    /\ Panics(c, job[c], "Cannot create output file", FALSE)
    /\ UNCHANGED <<bed_file, urls_file, remote, urls, regions_per_chr, todo,
                   thread_handles, joined, main_pc, exit_code, scan_vars>>

\* The locals after the next line was read through the tee reader.
AfterRead(j, line) ==
    [j EXCEPT !.nread = @ + 1,
              !.md5_writer = Md5ConsumerWriter_write(@, line)]

\* main.rs:182-207: one iteration of the loop, the write succeeding.
ProcessLine(c) ==
    LET j == job[c]
        body == remote[j.url].body
    IN  /\ Alive /\ j.pc = "lines" /\ j.nread < Len(body)
        /\ LET line == body[j.nread + 1]
               b == loop_body(j.intersection_check, line)
               j1 == [AfterRead(j, line) EXCEPT
                         !.intersection_check = b.intersection_check]
           IN  IF b.panic # None
               THEN Panics(c, j1, b.panic[1], TRUE)
               ELSE /\ job' = [job EXCEPT ![c] = j1]
                    /\ fs' = IF b.out # None
                             THEN [fs EXCEPT ![j.output_file_name] = writeln(@, line)]
                             ELSE fs
                    /\ UNCHANGED stderr
        /\ UNCHANGED <<bed_file, urls_file, remote, urls, regions_per_chr, todo,
                       thread_handles, joined, main_pc, exit_code, scan_vars>>

\* main.rs:188-189, 202-203: the write of the line fails.
WriteFails(c) ==
    LET j == job[c]
        body == remote[j.url].body
    IN  /\ Alive /\ j.pc = "lines" /\ j.nread < Len(body)
        /\ LET line == body[j.nread + 1]
               b == loop_body(j.intersection_check, line)
               j1 == [AfterRead(j, line) EXCEPT
                         !.intersection_check = b.intersection_check]
           IN  /\ b.panic = None /\ b.out # None
               /\ Panics(c, j1, "Cannot write to output!", TRUE)
        /\ UNCHANGED <<bed_file, urls_file, remote, urls, regions_per_chr, todo,
                       thread_handles, joined, main_pc, exit_code, scan_vars>>

\* main.rs:184-185: the stream ends abnormally.
ReadFails(c) ==
    /\ Alive /\ job[c].pc = "lines"
    /\ Panics(c, job[c], "Cannot read line!", TRUE)
    /\ UNCHANGED <<bed_file, urls_file, remote, urls, regions_per_chr, todo,
                   thread_handles, joined, main_pc, exit_code, scan_vars>>

\* Faulty variant of Digest: the loop is also left once the scanner has no interval
\* left.
Digest_once_exhausted(c) ==
    LET j == job[c]
    IN  /\ Alive /\ j.pc = "lines"
        /\ \/ j.nread = Len(remote[j.url].body)
           \/ /\ j.intersection_check.current_interval = None
              /\ j.intersection_check.intervals.pos > Len(j.regions)
        /\ LET d == Md5ConsumerWriter_digest(j.md5_writer, j.expected_md5)
           IN  job' = [job EXCEPT ![c].pc = "return",
                                  ![c].ret = Some(d.ret),
                                  ![c].md5_writer.progress_bar = d.progress_bar]
        /\ UNCHANGED <<bed_file, urls_file, remote, urls, regions_per_chr, todo,
                       thread_handles, joined, main_pc, exit_code, fs, stderr,
                       scan_vars>>

\* main.rs:208: the stream has ended; finalize and compare the digest.
Digest(c) ==
    LET j == job[c]
    IN  /\ Alive /\ j.pc = "lines" /\ j.nread = Len(remote[j.url].body)
        /\ LET d == Md5ConsumerWriter_digest(j.md5_writer, j.expected_md5)
           IN  job' = [job EXCEPT ![c].pc = "return",
                                  ![c].ret = Some(d.ret),
                                  ![c].md5_writer.progress_bar = d.progress_bar]
        /\ UNCHANGED <<bed_file, urls_file, remote, urls, regions_per_chr, todo,
                       thread_handles, joined, main_pc, exit_code, fs, stderr,
                       scan_vars>>

\* Faulty variant of Return: the thread ends without the writer finishing the file.
Return_unfinished(c) ==
    /\ Alive /\ job[c].pc = "return"
    /\ job' = [job EXCEPT ![c].pc = "done"]
    /\ UNCHANGED <<bed_file, urls_file, remote, urls, regions_per_chr, todo,
                   thread_handles, joined, main_pc, exit_code, fs, stderr,
                   scan_vars>>

\* main.rs:209: the function returns; its locals drop, the writer last.
Return(c) ==
    /\ Alive /\ job[c].pc = "return"
    /\ fs' = [fs EXCEPT ![job[c].output_file_name] = Writer_drop(@)]
    /\ job' = [job EXCEPT ![c].pc = "done"]
    /\ UNCHANGED <<bed_file, urls_file, remote, urls, regions_per_chr, todo,
                   thread_handles, joined, main_pc, exit_code, stderr, scan_vars>>

\* -------------------------------------------------------------------- main
\* The scanner specification's variables, at rest.
IdleScanner ==
    /\ scanner = SortedIntervalIntersect_new(IntoIter(<<>>))
    /\ value = None /\ ret = None /\ in_order = TRUE

\* The process starts: the two files and the remotes are given, nothing ran.
Init ==
    /\ remote \in [Urls -> Remotes]
    /\ bed_file \in BedFiles
    /\ urls_file \in UrlFiles(remote)
    /\ urls = EmptyMap /\ regions_per_chr = EmptyMap /\ todo = {}
    /\ thread_handles = <<>> /\ joined = 0
    /\ main_pc = "start" /\ exit_code = None
    /\ job = [c \in Chroms |-> NoJob]
    /\ fs = [f \in FileNames |-> None]
    /\ stderr = [c \in Chroms |-> <<>>]
    /\ IdleScanner

\* Faulty variant of LoopOrJoin: the spawn loop ends after its first turn.
LoopOrJoin_first_only(rest) == "join"

\* Where main stands once the spawn loop has left the chromosomes rest.
LoopOrJoin(rest) == IF rest = {} THEN "join" ELSE "spawn"

\* main.rs:217-256: read the two tables; sort each chromosome's regions.
ReadTables ==
    /\ Alive /\ main_pc = "start"
    /\ urls' = fold_urls(urls_file, 1, EmptyMap)
    /\ LET regions == fold_regions(bed_file, 1, EmptyMap)
       IN  /\ regions_per_chr' = [c \in DOMAIN regions |-> sort_by_key(regions[c])]
           /\ todo' = DOMAIN regions
           /\ main_pc' = LoopOrJoin(DOMAIN regions)
    /\ UNCHANGED <<bed_file, urls_file, remote, thread_handles, joined,
                   exit_code, job, fs, stderr, scan_vars>>

\* main.rs:262-285: the loop visits chrom_name, which the manifest lists, and
\* spawns its thread.
SpawnJob(chrom_name) ==
    /\ Alive /\ main_pc = "spawn" /\ chrom_name \in todo
    /\ chrom_name \in DOMAIN urls
    /\ job' = [job EXCEPT ![chrom_name] =
           [NoJob EXCEPT !.pc = "connect",
                         !.url = urls[chrom_name][2],
                         !.expected_md5 = urls[chrom_name][1],
                         !.regions = regions_per_chr[chrom_name],
                         !.output_file_name = output_file_name(chrom_name)]]
    /\ thread_handles' = Append(thread_handles, chrom_name)
    /\ todo' = todo \ {chrom_name}
    /\ main_pc' = LoopOrJoin(todo')
    /\ UNCHANGED <<bed_file, urls_file, remote, urls, regions_per_chr, joined,
                   exit_code, fs, stderr, scan_vars>>

\* main.rs:263: the loop visits a chromosome the manifest does not list.
SkipChrom(chrom_name) ==
    /\ Alive /\ main_pc = "spawn" /\ chrom_name \in todo
    /\ chrom_name \notin DOMAIN urls
    /\ todo' = todo \ {chrom_name}
    /\ main_pc' = LoopOrJoin(todo')
    /\ UNCHANGED <<bed_file, urls_file, remote, urls, regions_per_chr,
                   thread_handles, joined, exit_code, job, fs, stderr, scan_vars>>

\* main.rs:286-293: join the next handle, once its thread has ended.  A
\* thread that panicked makes join return Err, and expect panics main.
JoinThread ==
    /\ Alive /\ main_pc = "join" /\ joined < Len(thread_handles)
    /\ LET chrom_name == thread_handles[joined + 1]
           j == job[chrom_name]
       IN  /\ j.pc \in {"done", "panicked"}
           /\ IF j.pc = "done"
              THEN /\ joined' = joined + 1
                   /\ stderr' = IF j.ret = Some(TRUE)
                                THEN [stderr EXCEPT ![chrom_name] =
                                         Append(@, "Successfully downloaded")]
                                ELSE stderr
                   /\ UNCHANGED main_pc
              ELSE /\ main_pc' = "panicked"
                   /\ stderr' = [stderr EXCEPT ![chrom_name] =
                                    Append(@, "Cannot join thread")]
                   /\ UNCHANGED joined
    /\ UNCHANGED <<bed_file, urls_file, remote, urls, regions_per_chr, todo,
                   thread_handles, exit_code, job, fs, scan_vars>>

\* main.rs:294: every handle was joined; main returns.
MainReturns ==
    /\ Alive /\ main_pc = "join" /\ joined = Len(thread_handles)
    /\ main_pc' = "returned"
    /\ UNCHANGED <<bed_file, urls_file, remote, urls, regions_per_chr, todo,
                   thread_handles, joined, exit_code, job, fs, stderr, scan_vars>>

\* The main thread has returned or panicked: the process exits, with status
\* 0 or 101, and the threads still running end with it.
ProcessExits ==
    /\ Alive /\ main_pc \in {"returned", "panicked"}
    /\ exit_code' = Some(IF main_pc = "returned" THEN 0 ELSE 101)
    /\ UNCHANGED <<bed_file, urls_file, remote, urls, regions_per_chr, todo,
                   thread_handles, joined, main_pc, job, fs, stderr, scan_vars>>

Next ==
    \/ ReadTables
    \/ \E c \in Chroms : SpawnJob(c)
    \/ \E c \in Chroms : SkipChrom(c)
    \/ JoinThread
    \/ MainReturns
    \/ ProcessExits
    \/ \E c \in Chroms : Connect(c)
    \/ \E c \in Chroms : CreateFile(c)
    \/ \E c \in Chroms : CreateFileFails(c)
    \/ \E c \in Chroms : ProcessLine(c)
    \/ \E c \in Chroms : WriteFails(c)
    \/ \E c \in Chroms : ReadFails(c)
    \/ \E c \in Chroms : Digest(c)
    \/ \E c \in Chroms : Return(c)

Spec == Init /\ [][Next]_vars

\* ------------------------------------------------- claims on the scanner
\* The interval list the scanner was built from.
Items == scanner.intervals.items

SortedByStart(items) ==
    \A i, j \in 1..Len(items) : i < j => Le(items[i][1], items[j][1])
NonOverlapping(items) ==
    \A i, j \in 1..Len(items) : i < j => Le(items[i][2], items[j][1])
\* Every pair is a half-open interval [start, end): start <= end.
ProperIntervals(items) == \A i \in 1..Len(items) : Le(items[i][1], items[i][2])

\* Containment by brute force: some interval has start <= v < end.
Contains(items, v) ==
    \E i \in 1..Len(items) : Le(items[i][1], v) /\ Lt(v, items[i][2])

Called == value # None
Returned(r) == ret = Some(r)

\* C1: for non-decreasing queries against a list sorted by start and
\* non-overlapping, in_interval returns Some(true) exactly when brute-force
\* containment holds, and Some(false) or None otherwise.
C1_MatchesBruteForce ==
    (Called /\ in_order /\ SortedByStart(Items) /\ NonOverlapping(Items))
        => /\ Returned(Some(TRUE)) <=> Contains(Items, value[1])
           /\ ~Contains(Items, value[1]) => (Returned(Some(FALSE)) \/ Returned(None))

\* C1 witness: a hit in the second of two disjoint intervals, after the first
\* was passed.
C1_Witness ==
    /\ Called /\ in_order /\ SortedByStart(Items) /\ NonOverlapping(Items)
    /\ Len(Items) = 2 /\ scanner.intervals.pos = 3
    /\ Lt(Items[1][1], Items[1][2])
    /\ Returned(Some(TRUE))

\* C6: once in_interval has returned None, every later call, with any value,
\* returns None.
C6_ExhaustedAbsorbing == [][Returned(None) => ret' = Some(None)]_vars

\* C6 witness: None returned for a value that lies inside an interval of the
\* list, queried out of order after the scanner was exhausted.
C6_Witness == Called /\ Returned(None) /\ ~in_order /\ Contains(Items, value[1])

\* C7: for non-decreasing queries against a sorted non-overlapping list of
\* intervals (start <= end), a value below the first start gets Some(false),
\* a value at or past the last end gets None, and None is returned only for
\* a value >= the end of every interval.
C7_OutsideBeforeExhaustedAfter ==
    (Called /\ in_order /\ SortedByStart(Items) /\ NonOverlapping(Items)
            /\ ProperIntervals(Items))
        => /\ (Items # <<>> /\ Lt(value[1], Items[1][1])) => Returned(Some(FALSE))
           /\ (Items # <<>> /\ Le(Items[Len(Items)][2], value[1])) => Returned(None)
           /\ Returned(None) => \A i \in 1..Len(Items) : Le(Items[i][2], value[1])

\* C7 witness: None after the end of the last of two non-empty intervals.
C7_Witness ==
    /\ Called /\ in_order /\ SortedByStart(Items) /\ NonOverlapping(Items)
    /\ ProperIntervals(Items) /\ Len(Items) = 2
    /\ Lt(Items[1][1], Items[1][2]) /\ Lt(Items[2][1], Items[2][2])
    /\ Returned(None)

\* ------------------------------------------------- claims on the program
\* The chromosomes whose thread main has spawned.
Launched == {thread_handles[i] : i \in 1..Len(thread_handles)}
Exited == exit_code # None

\* What the URL of c's job serves.
BodyOf(c) == remote[job[c].url].body
\* The output file of c's job.
FileOf(c) == fs[output_file_name(c)]

\* The lines a scanner starting as sc lets through, from line i of body on:
\* headers, and records whose position in_interval answers Some(true).
RECURSIVE Filtered(_, _, _)
Filtered(body, i, sc) ==
    IF i > Len(body) THEN <<>>
    ELSE IF starts_with_hash(body[i]) THEN <<body[i]>> \o Filtered(body, i + 1, sc)
    ELSE LET r == in_interval(sc, line_pos(body[i])[2])
         IN  (IF r.ret = Some(TRUE) THEN <<body[i]>> ELSE <<>>)
                 \o Filtered(body, i + 1, r.self)

\* The filtered content c's job owes: its whole input through a fresh
\* scanner over its regions.
Expected(c) ==
    Filtered(BodyOf(c), 1, SortedIntervalIntersect_new(IntoIter(job[c].regions)))

\* c's job has read its input to the end.
ReachedEnd(c) == job[c].pc \in {"return", "done"}

ScenarioRegions == <<<<U32(100), U32(200)>>, <<U32(400), U32(1000)>>>>

\* C2: a run that reaches the end of its input has written exactly the
\* header lines and the records the scanner classifies Inside, in input
\* order; with regions [(100,200),(400,1000)] and lines header, 50, 150, 500,
\* 1500 the output is header, 150, 500.
C2_OutputIsFilteredInput ==
    \A c \in Chroms :
        ReachedEnd(c) =>
            /\ FileOf(c) # None
            /\ FileOf(c)[1].lines = Expected(c)
            /\ (job[c].regions = ScenarioRegions /\ BodyOf(c) = ScenarioBody)
                   => FileOf(c)[1].lines =
                          <<Header, VcfLine(dec(150)), VcfLine(dec(500))>>

\* C2 witness: the scenario has run to its end.
C2_Witness ==
    \E c \in Chroms :
        /\ job[c].pc = "done"
        /\ job[c].regions = ScenarioRegions /\ BodyOf(c) = ScenarioBody
        /\ FileOf(c)[1].lines = <<Header, VcfLine(dec(150)), VcfLine(dec(500))>>

\* c's job meets no fault of its own: the URL answers, every record parses,
\* and the job has not panicked.
Healthy(c) ==
    /\ remote[job[c].url].conn = "ok"
    /\ \A i \in 1..Len(BodyOf(c)) :
           starts_with_hash(BodyOf(c)[i]) \/ line_pos(BodyOf(c)[i])[1] = "ok"
    /\ job[c].pc # "panicked"

\* The output file of c is complete: the filtered content, finished.
FileComplete(c) ==
    FileOf(c) = Some([lines |-> Expected(c), finished |-> TRUE])

\* C3: when one launched job ends in a fatal error and another would succeed
\* on its own, the other has run to completion and its output file holds
\* the complete filtered content when the process ends.
C3_SiblingCompletes ==
    \A a, b \in Launched :
        (Exited /\ a # b /\ job[a].pc = "panicked" /\ Healthy(b))
            => (job[b].pc = "done" /\ FileComplete(b))

\* C4: main never terminates while a launched job is still running: at exit
\* every launched job has reached a terminal outcome.
C4_ExitWaitsForAllJobs ==
    Exited => \A c \in Launched : job[c].pc \in {"done", "panicked"}

\* The reports of c's outcome: what main printed about it, and what the job
\* itself showed (its panic message, the final message of its bar).
MainReports(c) ==
    Len(SelectSeq(stderr[c],
            LAMBDA m : m \in {"Successfully downloaded", "Cannot join thread"}))
JobReports(c) ==
    (IF job[c].md5_writer.progress_bar.finished THEN 1 ELSE 0)
        + (IF job[c].panic # None THEN 1 ELSE 0)

\* C5: when the process exits, every launched job has an outcome and that
\* outcome has been reported, once: main reports it at most once, the job
\* itself at most once, and at least one of them does.
C5_EveryOutcomeReportedOnce ==
    Exited =>
        \A c \in Launched :
            /\ job[c].pc \in {"done", "panicked"}
            /\ MainReports(c) <= 1 /\ JobReports(c) <= 1
            /\ MainReports(c) + JobReports(c) >= 1

\* The all-positions region list [(0, u32::MAX)].
WholeRange == <<<<U32(0), U32_MAX>>>>

\* Every record of body has a position below u32::MAX.
BelowMax(body) ==
    \A i \in 1..Len(body) :
        starts_with_hash(body[i])
            \/ (line_pos(body[i])[1] = "ok" /\ Lt(line_pos(body[i])[2], U32_MAX))

\* C8 as stated: with the single region (0, u32::MAX) a run that reaches the
\* end of its input has written every line of it, position u32::MAX included.
C8_WholeRangeKeepsAll ==
    \A c \in Chroms :
        (ReachedEnd(c) /\ job[c].regions = WholeRange)
            => FileOf(c)[1].lines = BodyOf(c)

\* C8 amended: with the single region (0, u32::MAX) every header line and
\* every record is kept, in order, when every position is in
\* 0..=u32::MAX - 1.
C8_WholeRangeKeepsBelowMax ==
    \A c \in Chroms :
        (ReachedEnd(c) /\ job[c].regions = WholeRange /\ BelowMax(BodyOf(c)))
            => FileOf(c)[1].lines = BodyOf(c)

\* C8 witness: positions 0 and u32::MAX - 1 were kept under (0, u32::MAX).
C8_Witness ==
    \E c \in Chroms :
        /\ job[c].pc = "done" /\ job[c].regions = WholeRange
        /\ BodyOf(c) = WideBody /\ FileOf(c)[1].lines = WideBody

\* The digest of everything c's URL serves differs from the expected one.
DigestDiffers(c) ==
    format_x(md5_of_stream(BodyOf(c), 1, 0)) # job[c].expected_md5

\* C9: a digest mismatch is not fatal: a job that read its stream to the end
\* and whose digest differs ends normally with false, and from then on (so
\* when main receives the result) its file is the complete filtered content.
C9_MismatchKeepsFile ==
    \A c \in Chroms :
        /\ (ReachedEnd(c) /\ DigestDiffers(c))
               => (job[c].ret = Some(FALSE) /\ job[c].panic = None)
        /\ (job[c].pc = "done" /\ job[c].ret = Some(FALSE)) => FileComplete(c)
        /\ (job[c].pc = "done" /\ job[c].ret = Some(TRUE)) => ~DigestDiffers(c)

\* C9 witness: main has joined a job that returned false and wrote records.
C9_Witness ==
    \E i \in 1..joined :
        LET c == thread_handles[i]
        IN  /\ job[c].pc = "done" /\ job[c].ret = Some(FALSE)
            /\ Len(Expected(c)) > 1 /\ FileComplete(c)

\* c's job ended in a fatal error or in a digest mismatch.
Failed(c) ==
    job[c].pc = "panicked" \/ (job[c].pc = "done" /\ job[c].ret = Some(FALSE))
Succeeded(c) == job[c].pc = "done" /\ job[c].ret = Some(TRUE)

\* C10: the process ends with a failure status exactly when some launched
\* job ended in a fatal error or a digest mismatch, and the success of every
\* job that succeeded has been reported (by main or on the job's bar).
C10_ExitReflectsFailures ==
    Exited =>
        /\ (exit_code # Some(0)) <=> (\E c \in Launched : Failed(c))
        /\ \A c \in Launched :
               Succeeded(c) => MainReports(c) + JobReports(c) >= 1

\* The chromosomes the region table names, and those the manifest lists.
InBed(c) == \E i \in 1..Len(bed_file) : bed_file[i].chromosome = c
InManifest(c) == \E i \in 1..Len(urls_file) : urls_file[i].chromosome = c
SpawnLoopDone == main_pc \in {"join", "returned", "panicked"}

\* C11: one job, and only one, is launched for each chromosome that has a
\* region and a manifest entry, and none for any other: a chromosome of the
\* region table alone is skipped without error (main panics only at a join,
\* of a thread that panicked), a chromosome of the manifest alone gets no job.
C11_OneJobPerListedChromosome ==
    /\ Launched \subseteq {c \in Chroms : InBed(c) /\ InManifest(c)}
    /\ Cardinality(Launched) = Len(thread_handles)
    /\ \A c \in Chroms : (job[c].pc # "none") <=> (c \in Launched)
    /\ SpawnLoopDone => Launched = {c \in Chroms : InBed(c) /\ InManifest(c)}
    /\ main_pc = "panicked" =>
           (joined < Len(thread_handles)
               /\ job[thread_handles[joined + 1]].pc = "panicked")

\* C11 witness: the spawn loop is over, one chromosome was launched, one of
\* the region table was skipped and one of the manifest got no job.
C11_Witness ==
    /\ SpawnLoopDone /\ main_pc # "panicked"
    /\ \E c \in Launched : InBed(c) /\ InManifest(c)
    /\ \E c \in Chroms \ Launched : InBed(c) /\ ~InManifest(c)
    /\ \E c \in Chroms \ Launched : InManifest(c) /\ ~InBed(c)

\* The connection-opening step of c's job fails: refused, timed out, or
\* answered with a non-success status.
ConnectionFails(c) == remote[job[c].url].conn \in {"refused", "timeout", "status"}

\* C12: a job whose connection-opening step fails ends in a fatal error and
\* never in a success or a digest mismatch: it produces no result.
C12_ConnectionFailureIsFatal ==
    \A c \in Launched :
        ConnectionFails(c) =>
            /\ job[c].pc \notin {"return", "done"}
            /\ job[c].ret = None

\* The malformed records of the inputs, by kind: the second field missing,
\* not a number, above u32::MAX; and the message of the panic each owes.
MalformedMessage ==
    <<"c">> :> "Invalid vcf line"
        @@ <<"c", "\t", "x", "\t", "A">> :> "second field is not a number"
        @@ VcfLine(AboveMaxText) :> "second field is not a number"
Malformed(line) == line \in DOMAIN MalformedMessage

\* The index of the first malformed record of body from line i on, 0 if none.
RECURSIVE FirstMalformed(_, _)
FirstMalformed(body, i) ==
    IF i > Len(body) THEN 0
    ELSE IF Malformed(body[i]) THEN i
    ELSE FirstMalformed(body, i + 1)

IsPrefix(s, t) == Len(s) <= Len(t) /\ SubSeq(t, 1, Len(s)) = s

\* C13: a malformed record is fatal to its job: the job never reads past it,
\* panics on reading it with the message of its kind, never produces a
\* digest result, and its output holds only filtered lines that come before
\* the malformed one.
C13_MalformedRecordIsFatal ==
    \A c \in Launched :
        LET k == FirstMalformed(BodyOf(c), 1)
        IN  k # 0 =>
                /\ job[c].pc \notin {"return", "done"}
                /\ job[c].ret = None
                /\ ~job[c].md5_writer.progress_bar.finished
                /\ job[c].nread <= k
                /\ job[c].nread = k =>
                       /\ job[c].pc = "panicked"
                       /\ job[c].panic = Some(MalformedMessage[BodyOf(c)[k]])
                /\ FileOf(c) # None =>
                       IsPrefix(FileOf(c)[1].lines,
                                Filtered(SubSeq(BodyOf(c), 1, k - 1), 1,
                                    SortedIntervalIntersect_new(
                                        IntoIter(job[c].regions))))

\* C13 witness: a job panicked on its malformed record, after it had written
\* a line, and lines followed the record in the input.
C13_Witness ==
    \E c \in Launched :
        LET k == FirstMalformed(BodyOf(c), 1)
        IN  /\ k # 0 /\ k < Len(BodyOf(c))
            /\ job[c].pc = "panicked" /\ job[c].nread = k
            /\ job[c].panic = Some(MalformedMessage[BodyOf(c)[k]])
            /\ FileOf(c) # None /\ FileOf(c)[1].finished
            /\ Len(FileOf(c)[1].lines) > 0

\* The number of raw bytes of the stream body.
RECURSIVE StreamLen(_, _)
StreamLen(body, i) ==
    IF i > Len(body) THEN 0 ELSE Len(body[i]) + StreamLen(body, i + 1)

\* c's job has finalized its digest: the bar is finished or a result exists.
Finalized(c) == job[c].md5_writer.progress_bar.finished \/ job[c].ret # None

\* The scanner of c's job has no interval left.
Exhausted(c) ==
    /\ job[c].intersection_check.current_interval = None
    /\ job[c].intersection_check.intervals.pos > Len(job[c].regions)

\* C14: the digest is finalized only once the whole stream was read, and
\* then Md5ConsumerWriter has consumed every byte of it, in order, however
\* many lines the filter dropped and whether or not the scanner ran out of
\* intervals before the end.
C14_DigestCoversWholeStream ==
    \A c \in Launched :
        Finalized(c) =>
            /\ job[c].nread = Len(BodyOf(c))
            /\ job[c].md5_writer.md5_context = md5_of_stream(BodyOf(c), 1, 0)
            /\ job[c].md5_writer.progress_bar.pos = StreamLen(BodyOf(c), 1)
            /\ job[c].ret =
                   Some(format_x(md5_of_stream(BodyOf(c), 1, 0)) = job[c].expected_md5)

\* C14 witness: the scanner ran out of intervals at the second of four
\* lines, two records were dropped, and the digest is that of all four.
C14_Witness ==
    \E c \in Launched :
        /\ job[c].pc = "done" /\ Finalized(c) /\ Exhausted(c)
        /\ BodyOf(c) = MaxBody /\ job[c].regions = ScenarioRegions
        /\ FileOf(c)[1].lines = <<Header, Header>>
        /\ job[c].md5_writer.md5_context = md5_of_stream(MaxBody, 1, 0)

\* This step, c's job processes its next line, and that line is a header.
ProcessesHeader(c) ==
    /\ job[c].pc = "lines"
    /\ job'[c].nread = job[c].nread + 1
    /\ starts_with_hash(BodyOf(c)[job[c].nread + 1])

\* C15: a step that processes a header line leaves the scanner of the job as
\* it was, whatever its state, and appends the line to the output file; the
\* only other end of the step is the panic of a write that failed.
C15_HeadersAlwaysCopied ==
    [][\A c \in Chroms :
          ProcessesHeader(c) =>
              /\ job'[c].intersection_check = job[c].intersection_check
              /\ \/ /\ job'[c].pc = "lines"
                    /\ fs'[job[c].output_file_name] =
                           writeln(fs[job[c].output_file_name],
                                   BodyOf(c)[job[c].nread + 1])
                 \/ /\ job'[c].pc = "panicked"
                    /\ job'[c].panic = Some("Cannot write to output!")]_vars

\* C15 witness: a header that came after the scanner ran out of intervals
\* is the last line written, the scanner still as it was.
C15_Witness ==
    \E c \in Launched :
        /\ job[c].pc = "lines" /\ Exhausted(c)
        /\ BodyOf(c) = MaxBody /\ job[c].nread = Len(MaxBody)
        /\ job[c].regions = WholeRange
        /\ FileOf(c)[1].lines = <<Header, VcfLine(BelowMaxText), Header>>

\* The scanner holds a candidate and the value queried in this step is
\* below the candidate's end: the call answers on that candidate.
AnswersOnCandidate ==
    /\ scanner.current_interval # None
    /\ value' # None
    /\ Lt(value'[1], scanner.current_interval[1][2])

\* C16: a call answered on the candidate already held returns Some(_) and
\* leaves the candidate and the interval source as they were; in every call
\* the index of the candidate in the list does not decrease, and the
\* candidate held is the interval at that index.
C16_NoAdvanceOnHitOrGap ==
    [][/\ AnswersOnCandidate =>
              /\ scanner' = scanner
              /\ ret' = Some(Some(~Lt(value'[1], scanner.current_interval[1][1])))
       /\ scanner'.intervals.pos >= scanner.intervals.pos
       /\ scanner'.intervals.items = scanner.intervals.items
       /\ scanner'.current_interval # None =>
              scanner'.current_interval =
                  Some(Items[scanner'.intervals.pos - 1])]_vars

\* C16 witness: after at least two calls, the last a hit, the candidate is
\* still the first of two intervals and the second is still in the source.
C16_Witness ==
    /\ Called /\ ~in_order /\ Returned(Some(TRUE))
    /\ Len(Items) = 2 /\ scanner.intervals.pos = 2
    /\ scanner.current_interval = Some(Items[1])

\* C17: every call returns one of the three results, and however many calls
\* were made the source has yielded at most as many intervals as the list
\* holds: each interval is fetched at most once.
C17_EachIntervalFetchedOnce ==
    /\ Called => (Returned(None) \/ Returned(Some(TRUE)) \/ Returned(Some(FALSE)))
    /\ scanner.intervals.yielded <= Len(Items)

\* C17 witness: both intervals of a list were fetched, the scanner ran out,
\* and a later call with a value before the first interval fetched nothing.
C17_Witness ==
    /\ Called /\ ~in_order /\ Returned(None)
    /\ Len(Items) = 2 /\ scanner.intervals.yielded = 2
    /\ Lt(value[1], Items[1][1])

\* C18: for any region list, overlapping or nested, once sorted by start as
\* main sorts it, and for non-decreasing queries, in_interval returns
\* Some(true) exactly for the values in the union of the half-open regions.
C18_UnionOfOverlappingRegions ==
    (Called /\ in_order)
        => (Returned(Some(TRUE)) <=> Contains(Items, value[1]))

\* C18 witness: the second interval is nested in the first, and a value past
\* the end of the nested one is found in the outer one.
C18_Witness ==
    /\ Called /\ in_order /\ Len(Items) = 2
    /\ ~NonOverlapping(Items)
    /\ Lt(Items[1][1], Items[2][1]) /\ Lt(Items[2][1], Items[2][2])
    /\ Lt(Items[2][2], Items[1][2])
    /\ Le(Items[2][2], value[1])
    /\ Returned(Some(TRUE))

\* c's job runs: it was spawned and has neither returned nor panicked.
Running(c) == job[c].pc \in {"connect", "create", "lines", "return"}

\* Every launched job has the region list of its own chromosome, a scanner
\* over that list, and a file name no other launched job has.
OwnResources ==
    \A a \in Launched :
        /\ job[a].regions = regions_per_chr[a]
        /\ job[a].intersection_check.intervals.items \in {<<>>, job[a].regions}
        /\ job[a].pc \in {"lines", "return", "done"}
               => job[a].intersection_check.intervals.items = job[a].regions
        /\ job[a].output_file_name = <<a, ".vcf.gz">>
        /\ \A b \in Launched \ {a} :
               job[a].output_file_name # job[b].output_file_name

\* C19: launched jobs share neither scanner nor output file: each has its
\* own region list, scanner and file name, a step changes the locals (the
\* scanner among them) of one job at most, and a file changes only in a
\* step of the one job that has its name.
C19_JobsShareNothing ==
    [][/\ OwnResources'
       /\ \A a, b \in Chroms :
              (a # b /\ job'[a] # job[a]) => job'[b] = job[b]
       /\ \A f \in FileNames :
              fs'[f] # fs[f] =>
                  /\ Cardinality({c \in Launched : job[c].output_file_name = f}) = 1
                  /\ \E c \in Launched :
                         /\ Running(c) /\ job[c].output_file_name = f
                         /\ job'[c] # job[c]]_vars

\* C19 witness: two jobs run at once, each has written lines to its own
\* file and holds a candidate of its own scanner.
C19_Witness ==
    \E a, b \in Launched :
        /\ a # b /\ job[a].pc = "lines" /\ job[b].pc = "lines"
        /\ FileOf(a) # None /\ Len(FileOf(a)[1].lines) > 0
        /\ FileOf(b) # None /\ Len(FileOf(b)[1].lines) > 0
        /\ job[a].output_file_name # job[b].output_file_name
        /\ job[a].intersection_check.current_interval # None
        /\ job[b].intersection_check.current_interval # None
====
